---- MODULE Spec2Model ----
(***************************************************************************)
(* Model of the asynchronous scribe client:                                *)
(*   scribe_logging_client.py  ScribeClient (connection lifecycle)         *)
(*   _thrift/scribe/scribe.py  Client (sequence ids, pending calls),       *)
(*                             Log_result (reply struct)                   *)
(* A Twisted Deferred is modelled by the log() call that owns it: the      *)
(* deferred returned by log() for call number i is calls[i].fut, and the   *)
(* deferred registered in Client._reqs for that call resolves it.          *)
(***************************************************************************)
EXTENDS Integers, Sequences, FiniteSets, TLC

\* ---- bounds of the model ----
MaxCalls == 3
MaxConnects == 2
MaxBatch == 2
MaxFields == 3

\* ---- program constants ----
CALL == 1
REPLY == 2
EXCEPTION == 3
T_I32 == 8
T_STRING == 11
T_STRUCT == 12
T_LIST == 15
MISSING_RESULT == 5
UNKNOWN_METHOD == 1

None == 0

VARIABLES
  _state,     \* ScribeClient._state
  _client,    \* ScribeClient._client: None or the connection (its attempt number)
  _waiting,   \* ScribeClient._waiting: the queued deferreds, by call number
  connects,   \* number of endpoint.connect() calls made so far
  endpoint,   \* per connect attempt: where the reactor has taken it
  clients,    \* per connection: the scribe.Client built for it
  calls,      \* the log() calls made so far, in call order
  op,         \* the handler that ran last
  codec       \* one value on its way through log()'s normalisation and the struct codec

vars == <<_state, _client, _waiting, connects, endpoint, clients, calls, op, codec>>

Conns == 1..MaxConnects
Reasons == {"refused", "timeout"}

\* connect attempts whose deferred has not fired yet
inflight == {a \in Conns : endpoint[a] = "inflight"}
\* the established connection the reactor still holds, or None
alive == IF \E a \in Conns : endpoint[a] = "established"
           THEN CHOOSE a \in Conns : endpoint[a] = "established"
           ELSE None
Categories == {"app"}

\* The `messages` argument of log(): a single string (str, with the characters
\* it yields when iterated as items) or a list of strings (items).
StringInput(str, chars) == [isString |-> TRUE, str |-> str, items |-> chars]
ListInput(items) == [isString |-> FALSE, str |-> "", items |-> items]
LogInputs ==
  { StringInput("hello", <<"h", "e", "l", "l", "o">>),
    ListInput(<<"hello">>) }

\* ttypes.LogEntry(category, message)
LogEntry(category, message) == [category |-> category, message |-> message]

\* log() without the basestring test: one LogEntry per item the argument yields
Entries_iterates(category, messages) ==
  [i \in 1..Len(messages.items) |-> LogEntry(category, messages.items[i])]

\* log(): a basestring becomes a one-element list, then one LogEntry per message
Entries(category, messages) ==
  LET lines == IF messages.isString THEN <<messages.str>> ELSE messages.items
  IN  [i \in 1..Len(lines) |-> LogEntry(category, lines[i])]

\* ---- deferred results ----
Pending == [st |-> "pending", val |-> 0, err |-> "", code |-> 0, msg |-> ""]
Awaiting == [st |-> "awaiting", val |-> 0, err |-> "", code |-> 0, msg |-> ""]
Result(v) == [st |-> "result", val |-> v, err |-> "", code |-> 0, msg |-> ""]
Failure(e, c, m) == [st |-> "failure", val |-> 0, err |-> e, code |-> c, msg |-> m]

\* ---- inbound structs ----
\* One field of a struct on the wire: (field id, type tag, value); the stop
\* marker is the end of the sequence.
Field(fid, ftype, i32, str) == [fid |-> fid, ftype |-> ftype, i32 |-> i32, str |-> str]

NoSuccess == [present |-> FALSE, value |-> 0]
NoMessage == ""

\* Log_result.read with decoding ended at the first field it does not know
RECURSIVE Log_result_read_aborts(_, _)
Log_result_read_aborts(success, fields) ==
  IF fields = <<>> THEN success
  ELSE LET f == Head(fields)
       IN  IF f.fid = 0 /\ f.ftype = T_I32
             THEN Log_result_read_aborts([present |-> TRUE, value |-> f.i32], Tail(fields))
             ELSE success

\* Log_result.read: field 0 of type I32 sets success, anything else is skipped
RECURSIVE Log_result_read(_, _)
Log_result_read(success, fields) ==
  IF fields = <<>> THEN success
  ELSE LET f == Head(fields)
       IN  IF f.fid = 0 /\ f.ftype = T_I32
             THEN Log_result_read([present |-> TRUE, value |-> f.i32], Tail(fields))
             ELSE Log_result_read(success, Tail(fields))

\* x = TApplicationException(); x.read(iprot): field 1 (string) is the
\* message, field 2 (i32) the type, anything else is skipped
RECURSIVE TApplicationException_read(_, _)
TApplicationException_read(x, fields) ==
  IF fields = <<>> THEN x
  ELSE LET f == Head(fields)
       IN  IF f.fid = 1 /\ f.ftype = T_STRING
             THEN TApplicationException_read([x EXCEPT !.message = f.str], Tail(fields))
           ELSE IF f.fid = 2 /\ f.ftype = T_I32
             THEN TApplicationException_read([x EXCEPT !.type = f.i32], Tail(fields))
           ELSE TApplicationException_read(x, Tail(fields))

\* ---- outbound structs ----
\* A list field: the element type tag and the encoded elements
ListField(fid, etype, elems) ==
  [fid |-> fid, ftype |-> T_LIST, i32 |-> 0, str |-> "", etype |-> etype,
   elems |-> elems]

\* An attribute that is None
NoValue == "<None>"

\* LogEntry.write: field 1 the category, field 2 the message, each a string
\* and each left out when None
LogEntry_write(e) ==
  (IF e.category = NoValue THEN <<>> ELSE <<Field(1, T_STRING, 0, e.category)>>)
    \o (IF e.message = NoValue THEN <<>> ELSE <<Field(2, T_STRING, 0, e.message)>>)

\* LogEntry.read: string field 1 sets category, string field 2 sets message,
\* anything else is skipped
RECURSIVE LogEntry_read(_, _)
LogEntry_read(e, fields) ==
  IF fields = <<>> THEN e
  ELSE LET f == Head(fields)
       IN  IF f.fid = 1 /\ f.ftype = T_STRING
             THEN LogEntry_read([e EXCEPT !.category = f.str], Tail(fields))
           ELSE IF f.fid = 2 /\ f.ftype = T_STRING
             THEN LogEntry_read([e EXCEPT !.message = f.str], Tail(fields))
           ELSE LogEntry_read(e, Tail(fields))

\* Log_args.__init__
Log_args(messages) == [isNone |-> FALSE, messages |-> messages]
NoArgs == [isNone |-> TRUE, messages |-> <<>>]

\* Log_args.write with the list tested for truth instead of for None
Log_args_write_truthy(args) ==
  IF args.isNone \/ args.messages = <<>> THEN <<>>
  ELSE <<ListField(1, T_STRUCT,
                   [k \in 1..Len(args.messages) |-> LogEntry_write(args.messages[k])])>>

\* Log_args.write: field 1, a list of structs, unless messages is None
Log_args_write(args) ==
  IF args.isNone THEN <<>>
  ELSE <<ListField(1, T_STRUCT,
                   [k \in 1..Len(args.messages) |-> LogEntry_write(args.messages[k])])>>

\* Log_args.read: a list in field 1 is read element by element into messages,
\* anything else is skipped
RECURSIVE Log_args_read(_, _)
Log_args_read(args, fields) ==
  IF fields = <<>> THEN args
  ELSE LET f == Head(fields)
       IN  IF f.fid = 1 /\ f.ftype = T_LIST
             THEN Log_args_read(
                    Log_args([k \in 1..Len(f.elems) |->
                                LogEntry_read(LogEntry(NoValue, NoValue), f.elems[k])]),
                    Tail(fields))
             ELSE Log_args_read(args, Tail(fields))

\* The structs the collector may send
ResultStructs ==
  { <<>>,
    <<Field(0, T_I32, 0, "")>>,
    <<Field(0, T_I32, 7, "")>>,
    <<Field(3, T_STRING, 0, "x"), Field(0, T_I32, 7, "")>>,
    <<Field(0, T_STRING, 0, "7")>> }
ExceptionStructs ==
  { <<Field(1, T_STRING, 0, "boom"), Field(2, T_I32, 6, "")>>,
    <<Field(2, T_I32, UNKNOWN_METHOD, ""), Field(1, T_STRING, 0, "Unknown function Log")>> }

\* An inbound frame: the envelope header (kind, sequence id) and its struct
Frame(mtype, fields) == [mtype |-> mtype, fields |-> fields]
Frames ==
  {Frame(REPLY, f) : f \in ResultStructs}
    \cup {Frame(EXCEPTION, f) : f \in ExceptionStructs}
    \cup {Frame(CALL, <<Field(0, T_I32, 0, "")>>)}
SeqIds == 1..MaxCalls

\* ---- scribe.Client ----
\* Client.__init__
NewClient == [_seqid |-> 0, _reqs |-> <<>>, buf |-> <<>>, out |-> <<>>]

\* send_Log with the header written from the sequence id before the increment
send_Log_stale(cl, messages) ==
  LET args == Log_args(messages)
      written == [cl EXCEPT !.buf = Append(@, [name |-> "Log", kind |-> CALL,
                                               seqid |-> cl._seqid - 1,
                                               args |-> Log_args_write(args)])]
  IN  [written EXCEPT !.out = @ \o written.buf, !.buf = <<>>]

\* Client.send_Log: the envelope header (name, kind, the current _seqid) and
\* the encoded argument struct are written to the transport, which is then
\* flushed: what it buffered goes out on the connection
send_Log(cl, messages) ==
  LET args == Log_args(messages)
      written == [cl EXCEPT !.buf = Append(@, [name |-> "Log", kind |-> CALL,
                                               seqid |-> cl._seqid,
                                               args |-> Log_args_write(args)])]
  IN  [written EXCEPT !.out = @ \o written.buf, !.buf = <<>>]

\* Client.Log with the sequence id taken from the number of pending calls
Client_Log_reuses(cl, id, messages) ==
  LET s == Cardinality(DOMAIN cl._reqs) + 1
      c1 == [cl EXCEPT !._seqid = s,
                       !._reqs = [k \in (DOMAIN cl._reqs) \cup {s} |->
                                    IF k = s THEN id ELSE cl._reqs[k]]]
  IN  send_Log(c1, messages)

\* Client.Log: allocate the sequence id, register the pending call, send
Client_Log(cl, id, messages) ==
  LET s == cl._seqid + 1
      c1 == [cl EXCEPT !._seqid = s,
                       !._reqs = [k \in (DOMAIN cl._reqs) \cup {s} |->
                                    IF k = s THEN id ELSE cl._reqs[k]]]
  IN  send_Log(c1, messages)

\* ---- the codec bench ----
\* The value being taken through log()'s normalisation, Log_args.write and
\* Log_args.read (kind "args"), or through Log_result.read (kind "reply")
Bench(kind, phase, category, input, reply) ==
  [kind |-> kind, phase |-> phase, category |-> category, input |-> input,
   entries |-> <<>>, wire |-> <<>>, extra |-> FALSE, decoded |-> NoArgs,
   reply |-> reply, success |-> NoSuccess]
Idle == Bench("idle", "idle", "", ListInput(<<>>), <<>>)

\* The handler that ran: its name, the call or connect attempt it was about,
\* and the reason it was given or the error it raised
Op(name, id, err) == [name |-> name, id |-> id, err |-> err]

Init ==
  /\ _state = "NOT_CONNECTED"
  /\ _client = None
  /\ _waiting = <<>>
  /\ connects = 0
  /\ endpoint = [a \in Conns |-> "unused"]
  /\ clients = [c \in Conns |-> NewClient]
  /\ calls = <<>>
  /\ op = Op("init", 0, "")
  /\ codec = Idle

\* ---- ScribeClient ----
NotFired == -1

\* The record kept for one log() call: its entries, how _get_client served it
\* (role), the connect attempt it rode (episode), the value its _get_client
\* deferred fired with (got), where Client.Log registered it (conn, seqid),
\* and the state of the deferred log() returned (fut).
NewCall(category, entries, role, episode) ==
  [category |-> category, entries |-> entries, role |-> role, episode |-> episode,
   got |-> NotFired, conn |-> None, seqid |-> 0, fut |-> Pending]

\* ScribeClient._notify_connected
_notify_connected(id) == Append(_waiting, id)

\* _get_client with a connect started on every call that finds no connection
_get_client_reconnects(id) ==
  IF _state = "NOT_CONNECTED"
    THEN [state |-> "CONNECTING", connect |-> TRUE, waiting |-> _waiting,
          role |-> "connector", fired |-> FALSE, value |-> None]
  ELSE IF _state = "CONNECTING"
    THEN [state |-> _state, connect |-> TRUE, waiting |-> _notify_connected(id),
          role |-> "waiter", fired |-> FALSE, value |-> None]
  ELSE [state |-> _state, connect |-> FALSE, waiting |-> _waiting,
        role |-> "ready", fired |-> TRUE, value |-> _client]

\* _get_client with the CONNECTED caller queued like a CONNECTING one
_get_client_enqueues(id) ==
  IF _state = "NOT_CONNECTED"
    THEN [state |-> "CONNECTING", connect |-> TRUE, waiting |-> _waiting,
          role |-> "connector", fired |-> FALSE, value |-> None]
  ELSE [state |-> _state, connect |-> FALSE, waiting |-> _notify_connected(id),
        role |-> "waiter", fired |-> FALSE, value |-> None]

\* ScribeClient._get_client: the new state, whether endpoint.connect was
\* called, the new waiter queue and whether the returned deferred has already
\* fired (and with what)
_get_client(id) ==
  IF _state = "NOT_CONNECTED"
    THEN [state |-> "CONNECTING", connect |-> TRUE, waiting |-> _waiting,
          role |-> "connector", fired |-> FALSE, value |-> None]
  ELSE IF _state = "CONNECTING"
    THEN [state |-> _state, connect |-> FALSE, waiting |-> _notify_connected(id),
          role |-> "waiter", fired |-> FALSE, value |-> None]
  ELSE [state |-> _state, connect |-> FALSE, waiting |-> _waiting,
        role |-> "ready", fired |-> TRUE, value |-> _client]

\* log._log(client): client.client.Log(entries); on None the attribute
\* lookup raises and the deferred fails with that error
_log(call, client, cls, id) ==
  IF client = None
    THEN [call |-> [call EXCEPT !.got = client,
                                !.fut = Failure("AttributeError", 0, "")],
          clients |-> cls]
    ELSE LET cl == Client_Log(cls[client], id, call.entries)
         IN  [call |-> [call EXCEPT !.got = client, !.conn = client,
                                    !.seqid = cl._seqid, !.fut = Awaiting],
              clients |-> [cls EXCEPT ![client] = cl]]

\* d.callback(client) on the deferreds of the calls `ids`, one after another
RECURSIVE Fire(_, _, _)
Fire(world, ids, client) ==
  IF ids = <<>> THEN world
  ELSE LET id == Head(ids)
           r == _log(world.calls[id], client, world.clients, id)
       IN  Fire([calls |-> [world.calls EXCEPT ![id] = r.call],
                 clients |-> r.clients],
                Tail(ids), client)

\* d.errback(reason) on the deferreds of the calls `ids`: _log is skipped
Reject(cs, ids, reason) ==
  [i \in DOMAIN cs |->
     IF \E k \in DOMAIN ids : ids[k] = i
       THEN [cs[i] EXCEPT !.fut = Failure(reason, 0, "")]
       ELSE cs[i]]

\* The call that started connect attempt a
Connector(a) == CHOOSE i \in DOMAIN calls :
                  calls[i].role = "connector" /\ calls[i].episode = a

\* ScribeClient.log
log(category, messages) ==
  LET id == Len(calls) + 1
      g == _get_client(id)
      call == NewCall(category, Entries(category, messages), g.role,
                      IF g.connect THEN connects + 1
                      ELSE IF g.role = "ready" THEN _client ELSE connects)
      world == [calls |-> Append(calls, call), clients |-> clients]
      after == IF g.fired THEN Fire(world, <<id>>, g.value) ELSE world
  IN  /\ id <= MaxCalls
      /\ g.connect => connects < MaxConnects
      /\ _state' = g.state
      /\ _waiting' = g.waiting
      /\ connects' = IF g.connect THEN connects + 1 ELSE connects
      /\ endpoint' = IF g.connect THEN [endpoint EXCEPT ![connects + 1] = "inflight"]
                      ELSE endpoint
      /\ calls' = after.calls
      /\ clients' = after.clients
      /\ op' = Op("log", id, "")
      /\ UNCHANGED <<_client, codec>>

\* _connection_made with the queue popped from its end
_connection_made_lifo(client) ==
  [state |-> "CONNECTED", client |-> client,
   fired |-> [k \in 1..Len(_waiting) |-> _waiting[Len(_waiting) + 1 - k]],
   waiting |-> <<>>]

\* ScribeClient._connection_made: the new state and stored client, the
\* waiters fired (in firing order) and the queue left behind
_connection_made(client) ==
  [state |-> "CONNECTED", client |-> client, fired |-> _waiting, waiting |-> <<>>]

\* The connect deferred fires with the new protocol: buildProtocol and
\* connectionMade build its Client, then _connection_made runs and its return
\* value feeds the connecting call's _log
ConnectSucceeds(a) ==
  LET m == _connection_made(a)
      world == [calls |-> calls, clients |-> [clients EXCEPT ![a] = NewClient]]
      after == Fire(world, m.fired \o <<Connector(a)>>, m.client)
  IN  /\ a \in inflight
      /\ endpoint' = [endpoint EXCEPT ![a] = "established"]
      /\ _state' = m.state
      /\ _client' = m.client
      /\ _waiting' = m.waiting
      /\ calls' = after.calls
      /\ clients' = after.clients
      /\ op' = Op("_connection_made", a, "")
      /\ UNCHANGED <<connects, codec>>

\* ScribeClient._connection_failed: the new state and stored client, the
\* waiters rejected, the queue left behind, and whether the errback returns a
\* non-failure (which turns the deferred back to the callback chain)
_connection_failed(reason) ==
  [state |-> "NOT_CONNECTED", client |-> None, rejected |-> <<>>,
   waiting |-> _waiting, handled |-> TRUE]

\* The connect deferred fires with a failure
ConnectFails(a, reason) ==
  LET f == _connection_failed(reason)
      cs == Reject(calls, f.rejected, reason)
      world == [calls |-> cs, clients |-> clients]
      after == IF f.handled THEN Fire(world, <<Connector(a)>>, None)
               ELSE [world EXCEPT !.calls = Reject(cs, <<Connector(a)>>, reason)]
  IN  /\ a \in inflight
      /\ endpoint' = [endpoint EXCEPT ![a] = "failed"]
      /\ _state' = f.state
      /\ _client' = f.client
      /\ _waiting' = f.waiting
      /\ calls' = after.calls
      /\ clients' = after.clients
      /\ op' = Op("_connection_failed", a, reason)
      /\ UNCHANGED <<connects, codec>>

\* _connection_lost with an immediate reconnect
_connection_lost_eager(reason) ==
  [state |-> "CONNECTING", client |-> None, connect |-> TRUE]

\* _connection_lost with the stored client left in place
_connection_lost_stale(reason) ==
  [state |-> "NOT_CONNECTED", client |-> _client, connect |-> FALSE]

\* ScribeClient._connection_lost: the new state and stored client, and
\* whether endpoint.connect is called
_connection_lost(reason) ==
  [state |-> "NOT_CONNECTED", client |-> None, connect |-> FALSE]

\* _LossNotifyingWrapperProtocol.connectionLost of the established connection
ConnectionLost(reason) ==
  LET l == _connection_lost(reason)
      lost == [endpoint EXCEPT ![alive] = "lost"]
  IN  /\ alive # None
      /\ l.connect => connects < MaxConnects
      /\ _state' = l.state
      /\ _client' = l.client
      /\ connects' = IF l.connect THEN connects + 1 ELSE connects
      /\ endpoint' = IF l.connect THEN [lost EXCEPT ![connects + 1] = "inflight"]
                      ELSE lost
      /\ op' = Op("_connection_lost", alive, reason)
      /\ UNCHANGED <<_waiting, clients, calls, codec>>

\* dict.pop(key) on _reqs
Pop(reqs, key) == [k \in (DOMAIN reqs) \ {key} |-> reqs[k]]

\* recv_Log with an unmatched sequence id ignored (pop with a default)
recv_Log_drops(cl, mtype, rseqid, fields) ==
  IF rseqid \notin DOMAIN cl._reqs
    THEN [client |-> cl, d |-> 0, fut |-> Pending, raised |-> ""]
  ELSE IF mtype = EXCEPTION
    THEN LET x == TApplicationException_read([type |-> 0, message |-> NoMessage], fields)
         IN  [client |-> [cl EXCEPT !._reqs = Pop(@, rseqid)], d |-> cl._reqs[rseqid],
              fut |-> Failure("TApplicationException", x.type, x.message), raised |-> ""]
  ELSE LET result == Log_result_read(NoSuccess, fields)
       IN  [client |-> [cl EXCEPT !._reqs = Pop(@, rseqid)], d |-> cl._reqs[rseqid],
            fut |-> IF result.present
                      THEN Result(result.value)
                      ELSE Failure("TApplicationException", MISSING_RESULT,
                                   "Log failed: unknown result"),
            raised |-> ""]

\* recv_Log with the pending call of an EXCEPTION looked up but not removed
recv_Log_keeps(cl, mtype, rseqid, fields) ==
  IF rseqid \notin DOMAIN cl._reqs
    THEN [client |-> cl, d |-> 0, fut |-> Pending, raised |-> "KeyError"]
  ELSE IF mtype = EXCEPTION
    THEN LET x == TApplicationException_read([type |-> 0, message |-> NoMessage], fields)
         IN  [client |-> cl, d |-> cl._reqs[rseqid],
              fut |-> Failure("TApplicationException", x.type, x.message), raised |-> ""]
  ELSE LET result == Log_result_read(NoSuccess, fields)
       IN  [client |-> [cl EXCEPT !._reqs = Pop(@, rseqid)], d |-> cl._reqs[rseqid],
            fut |-> IF result.present
                      THEN Result(result.value)
                      ELSE Failure("TApplicationException", MISSING_RESULT,
                                   "Log failed: unknown result"),
            raised |-> ""]

\* recv_Log with the result tested for truth instead of for None
recv_Log_truthy(cl, mtype, rseqid, fields) ==
  IF rseqid \notin DOMAIN cl._reqs
    THEN [client |-> cl, d |-> 0, fut |-> Pending, raised |-> "KeyError"]
  ELSE IF mtype = EXCEPTION
    THEN LET x == TApplicationException_read([type |-> 0, message |-> NoMessage], fields)
         IN  [client |-> [cl EXCEPT !._reqs = Pop(@, rseqid)], d |-> cl._reqs[rseqid],
              fut |-> Failure("TApplicationException", x.type, x.message), raised |-> ""]
  ELSE LET result == Log_result_read(NoSuccess, fields)
       IN  [client |-> [cl EXCEPT !._reqs = Pop(@, rseqid)], d |-> cl._reqs[rseqid],
            fut |-> IF result.present /\ result.value # 0
                      THEN Result(result.value)
                      ELSE Failure("TApplicationException", MISSING_RESULT,
                                   "Log failed: unknown result"),
            raised |-> ""]

\* Client.recv_Log: what happens to the tracking map, which pending call is
\* resolved and how, and the error raised out of the method ("" when none)
recv_Log(cl, mtype, rseqid, fields) ==
  IF rseqid \notin DOMAIN cl._reqs
    THEN [client |-> cl, d |-> 0, fut |-> Pending, raised |-> "KeyError"]
  ELSE IF mtype = EXCEPTION
    THEN LET x == TApplicationException_read([type |-> 0, message |-> NoMessage], fields)
         IN  [client |-> [cl EXCEPT !._reqs = Pop(@, rseqid)], d |-> cl._reqs[rseqid],
              fut |-> Failure("TApplicationException", x.type, x.message), raised |-> ""]
  ELSE LET result == Log_result_read(NoSuccess, fields)
       IN  [client |-> [cl EXCEPT !._reqs = Pop(@, rseqid)], d |-> cl._reqs[rseqid],
            fut |-> IF result.present
                      THEN Result(result.value)
                      ELSE Failure("TApplicationException", MISSING_RESULT,
                                   "Log failed: unknown result"),
            raised |-> ""]

\* A frame arrives on the established connection and is dispatched to its
\* Client's recv_Log
Receive(mtype, rseqid, fields) ==
  LET r == recv_Log(clients[alive], mtype, rseqid, fields)
  IN  /\ alive # None
      /\ clients' = [clients EXCEPT ![alive] = r.client]
      /\ calls' = [i \in DOMAIN calls |->
                     IF i = r.d THEN [calls[i] EXCEPT !.fut = r.fut] ELSE calls[i]]
      /\ op' = Op("recv_Log", r.d, r.raised)
      /\ UNCHANGED <<_state, _client, _waiting, connects, endpoint, codec>>

Next ==
  \/ \E c \in Categories, m \in LogInputs : log(c, m)
  \/ \E a \in Conns : ConnectSucceeds(a)
  \/ \E a \in Conns, r \in Reasons : ConnectFails(a, r)
  \/ \E r \in Reasons : ConnectionLost(r)
  \/ \E fr \in Frames, s \in SeqIds : Receive(fr.mtype, s, fr.fields)

Spec == Init /\ [][Next]_vars

\* The reactor fires every connect deferred, with a protocol or with a failure
ConnectCompletes ==
  \E a \in Conns : ConnectSucceeds(a) \/ \E r \in Reasons : ConnectFails(a, r)

FairSpec == Spec /\ WF_vars(ConnectCompletes)

\* ---- the codec taken alone ----
lifecycle == <<_state, _client, _waiting, connects, endpoint, clients, calls, op>>

\* The strings a caller may log, each with the characters it yields
Lines == { StringInput("hi", <<"h", "i">>), StringInput("a", <<"a">>),
           StringInput("", <<>>) }

RECURSIVE SeqsUpTo(_, _)
SeqsUpTo(S, n) ==
  IF n = 0 THEN {<<>>}
  ELSE LET shorter == SeqsUpTo(S, n - 1)
       IN  shorter \cup {Append(q, x) : q \in shorter, x \in S}

\* log() arguments: a string, or a list of at most MaxBatch strings
WideInputs ==
  Lines \cup {ListInput(l) : l \in SeqsUpTo({x.str : x \in Lines}, MaxBatch)}

\* Fields a collector may put in a reply struct, known and unknown
ReplyFields ==
  { Field(0, T_I32, 0, ""), Field(0, T_I32, 7, ""),
    Field(3, T_STRING, 0, "x"), Field(0, T_STRING, 0, "7") }
\* Fields Log_args.read does not know: an unknown id, and id 1 with another type
ExtraArgFields == { Field(2, T_STRING, 0, "x"), Field(1, T_I32, 9, "") }

CodecInit ==
  /\ _state = "NOT_CONNECTED"
  /\ _client = None
  /\ _waiting = <<>>
  /\ connects = 0
  /\ endpoint = [a \in Conns |-> "unused"]
  /\ clients = [c \in Conns |-> NewClient]
  /\ calls = <<>>
  /\ op = Op("init", 0, "")
  /\ codec \in {Bench("args", "input", c, m, <<>>) : c \in Categories, m \in WideInputs}
              \cup {Bench("reply", "input", "", ListInput(<<>>), f) :
                      f \in SeqsUpTo(ReplyFields, MaxFields)}

\* log(): the entries built from the argument
Normalise ==
  /\ codec.kind = "args" /\ codec.phase = "input"
  /\ codec' = [codec EXCEPT !.phase = "entries",
                             !.entries = Entries(codec.category, codec.input)]
  /\ UNCHANGED lifecycle

\* send_Log: args = Log_args(); args.messages = messages; args.write(oprot)
Encode ==
  /\ codec.kind = "args" /\ codec.phase = "entries"
  /\ codec' = [codec EXCEPT !.phase = "wire",
                             !.wire = Log_args_write(Log_args(codec.entries))]
  /\ UNCHANGED lifecycle

\* A peer of a later version adds a field the reader does not know, before or
\* after the known one
Extend(x, front) ==
  /\ codec.kind = "args" /\ codec.phase = "wire" /\ ~codec.extra
  /\ codec' = [codec EXCEPT !.extra = TRUE,
                             !.wire = IF front THEN <<x>> \o @ ELSE Append(@, x)]
  /\ UNCHANGED lifecycle

\* Log_args.read of the struct on the wire
Decode ==
  /\ codec.kind = "args" /\ codec.phase = "wire"
  /\ codec' = [codec EXCEPT !.phase = "decoded",
                             !.decoded = Log_args_read(NoArgs, codec.wire)]
  /\ UNCHANGED lifecycle

\* Log_result.read of a reply struct
DecodeReply ==
  /\ codec.kind = "reply" /\ codec.phase = "input"
  /\ codec' = [codec EXCEPT !.phase = "decoded",
                             !.success = Log_result_read(NoSuccess, codec.reply)]
  /\ UNCHANGED lifecycle

CodecNext ==
  \/ Normalise
  \/ Encode
  \/ \E x \in ExtraArgFields, front \in BOOLEAN : Extend(x, front)
  \/ Decode
  \/ DecodeReply

CodecSpec == CodecInit /\ [][CodecNext]_vars

\* ======================= properties =======================

\* The calls served through a connect attempt (not by an established connection)
Riders == {i \in DOMAIN calls : calls[i].role \in {"connector", "waiter"}}
Waiters == {i \in DOMAIN calls : calls[i].role = "waiter"}

\* C1: at most one connect attempt is in flight at any time; a _get_client made
\* while the state is CONNECTING never calls connect, and entering CONNECTING
\* starts exactly one attempt, so each CONNECTING episode holds exactly one.
C1_OneConnectInFlight ==
  [][ /\ Cardinality(inflight') <= 1
      /\ (_state' = "CONNECTING" <=> Cardinality(inflight') = 1)
      /\ (_state = "CONNECTING" => connects' = connects /\ inflight' \subseteq inflight)
      /\ (_state # "CONNECTING" /\ _state' = "CONNECTING" => connects' = connects + 1)
    ]_vars

\* C1 witness: two more log() calls have arrived during a connect attempt,
\* which is still the only one in flight
C1_Witness ==
  /\ _state = "CONNECTING"
  /\ Len(_waiting) >= 2
  /\ op.name = "log"
  /\ inflight = {connects}

\* C2 (as claimed): every log() call that started or joined a connect attempt
\* eventually has its future fired, with a result or a failure.
C2_AllCallersObserveOutcome ==
  \A i \in 1..MaxCalls :
    (i <= Len(calls) /\ calls[i].role \in {"connector", "waiter"})
      ~> (i <= Len(calls) /\ calls[i].fut.st # "pending")

\* C3 (as claimed): the waiter queue is non-empty only while CONNECTING, and
\* every waiter of a failed connect attempt has been rejected.
C3_FailureRejectsWaiters ==
  /\ (_waiting # <<>> => _state = "CONNECTING")
  /\ \A i \in Waiters :
       endpoint[calls[i].episode] = "failed" => calls[i].fut.st = "failure"

\* C4 (as claimed): when the connect attempt started by a log() call fails, that
\* call's future fails with the connect-failure reason itself, its send step
\* has not run and nothing was written for it.
C4_ConnectFailurePropagates ==
  \A i \in DOMAIN calls :
    (calls[i].role = "connector" /\ op.name = "_connection_failed"
       /\ op.id = calls[i].episode)
      => /\ calls[i].fut = Failure(op.err, 0, "")
         /\ calls[i].got = NotFired
         /\ calls[i].conn = None

\* C5 (as claimed): the entries of a log() call whose connect attempt failed
\* are never issued to the collector, on no connection.
C5_FailedEntriesNeverSent ==
  \A i \in Riders :
    endpoint[calls[i].episode] = "failed" => calls[i].conn = None

\* C6 (as claimed): connect success leaves the state CONNECTED, the connection
\* stored and the queue empty; every waiter of the completed attempt is
\* resolved with that connection, in enqueue order, and no waiter of another
\* attempt is resolved by it.
C6_SuccessResolvesOwnWaiters ==
  /\ (op.name = "_connection_made"
        => _state = "CONNECTED" /\ _client = op.id /\ _waiting = <<>>)
  /\ \A i \in Waiters :
       endpoint[calls[i].episode] \in {"established", "lost"}
         => calls[i].got = calls[i].episode
  /\ \A i, j \in Waiters :
       (i < j /\ calls[i].conn # None /\ calls[i].conn = calls[j].conn)
         => calls[i].seqid < calls[j].seqid
  /\ \A i \in Waiters :
       calls[i].got \notin {NotFired, None} => calls[i].got = calls[i].episode

\* C7: a connection loss sets the state to NOT_CONNECTED and clears the stored
\* connection without starting a connect; a connect is started only by a log()
\* call made in NOT_CONNECTED, which moves to CONNECTING and starts exactly one
\* attempt.
C7_LazyReconnect ==
  [][ /\ ((\E r \in Reasons : ConnectionLost(r))
            => /\ _state' = "NOT_CONNECTED"
               /\ _client' = None
               /\ connects' = connects
               /\ inflight' = {})
      /\ (connects' # connects
            => /\ op'.name = "log"
               /\ _state = "NOT_CONNECTED"
               /\ _state' = "CONNECTING"
               /\ connects' = connects + 1
               /\ inflight' = {connects'})
    ]_vars

\* C7 witness: connection 1 was lost and the next log() call has started
\* attempt 2
C7_Witness ==
  /\ endpoint[1] = "lost"
  /\ op.name = "log"
  /\ _state = "CONNECTING"
  /\ inflight = {2}

\* C8: _get_client in state CONNECTED returns a deferred already fired with the
\* stored connection and leaves the state, the stored connection, the waiter
\* queue and the connect attempts as they were.
C8_ConnectedGetClientIsPure ==
  [][ \A c \in Categories, m \in LogInputs :
        (_state = "CONNECTED" /\ log(c, m))
          => /\ _state' = _state
             /\ _client' = _client
             /\ _waiting' = _waiting
             /\ connects' = connects
             /\ endpoint' = endpoint
             /\ _client # None
             /\ calls'[Len(calls) + 1].got = _client
    ]_vars

\* C8 witness: a log() call has just been served by the established connection
C8_Witness ==
  /\ op.name = "log"
  /\ _state = "CONNECTED"
  /\ calls[op.id].role = "ready"
  /\ calls[op.id].got = _client

\* A frame whose sequence id has no pending call is received
ReceiveUnmatched(fr, s) ==
  /\ op'.name = "recv_Log"
  /\ alive # None
  /\ s \notin DOMAIN clients[alive]._reqs
  /\ Receive(fr.mtype, s, fr.fields)

FieldOf(fields, fid) == fields[CHOOSE k \in DOMAIN fields : fields[k].fid = fid]

\* C10: an EXCEPTION envelope with sequence id s fails exactly the pending call
\* registered under s, with the exception's decoded type and message, and
\* removes it from the tracking map; every other pending call stays in the
\* map and every other call is unchanged.
C10_ExceptionFailsOnlyItsCall ==
  [][ \A fr \in Frames, s \in SeqIds :
        (/\ fr.mtype = EXCEPTION
         /\ op'.name = "recv_Log"
         /\ alive # None
         /\ s \in DOMAIN clients[alive]._reqs
         /\ Receive(fr.mtype, s, fr.fields))
          => LET reqs == clients[alive]._reqs
                 i == reqs[s]
             IN  /\ calls'[i].fut = Failure("TApplicationException",
                                           FieldOf(fr.fields, 2).i32,
                                           FieldOf(fr.fields, 1).str)
                 /\ DOMAIN clients'[alive]._reqs = (DOMAIN reqs) \ {s}
                 /\ \A k \in (DOMAIN reqs) \ {s} : clients'[alive]._reqs[k] = reqs[k]
                 /\ \A j \in (DOMAIN calls) \ {i} : calls'[j] = calls[j]
    ]_vars

\* C10 witness: one call has failed with the collector's exception while
\* another is still pending on the same connection
C10_Witness ==
  /\ op.name = "recv_Log"
  /\ op.err = ""
  /\ op.id \in DOMAIN calls
  /\ calls[op.id].fut = Failure("TApplicationException", 6, "boom")
  /\ alive # None
  /\ \E k \in DOMAIN clients[alive]._reqs :
       calls[clients[alive]._reqs[k]].fut.st = "awaiting"

\* Whether a struct carries field 0 as an i32, and the value it carries
CarriesSuccess(fields) ==
  \E k \in DOMAIN fields : fields[k].fid = 0 /\ fields[k].ftype = T_I32
SuccessOf(fields) ==
  fields[CHOOSE k \in DOMAIN fields :
           /\ fields[k].fid = 0 /\ fields[k].ftype = T_I32
           /\ \A l \in DOMAIN fields :
                (fields[l].fid = 0 /\ fields[l].ftype = T_I32) => l <= k].i32

C12_SeqIdsIncreaseAndUnique ==
  [][ \A c \in Conns :
        LET cl == clients[c]
            cl2 == clients'[c]
        IN  /\ \A k, l \in DOMAIN cl2.out :
                 k < l => cl2.out[k].seqid < cl2.out[l].seqid
            /\ Len(cl2.out) > Len(cl.out)
                 => \A k \in (Len(cl.out) + 1)..Len(cl2.out) :
                      cl2.out[k].seqid \notin DOMAIN cl._reqs
            /\ \A i, j \in DOMAIN calls' :
                 (/\ i # j
                  /\ calls'[i].conn = c /\ calls'[j].conn = c
                  /\ calls'[i].fut.st = "awaiting" /\ calls'[j].fut.st = "awaiting")
                   => calls'[i].seqid # calls'[j].seqid
    ]_vars

\* C12 witness: a third sequence id was allocated on a connection after the
\* reply to an earlier call was consumed
C12_Witness ==
  \E c \in Conns :
    /\ clients[c]._seqid = 3
    /\ Cardinality(DOMAIN clients[c]._reqs) = 2
    /\ op.name = "log"

\* The calls issued on connection c that have had no reply yet
InFlight(c) == {i \in DOMAIN calls : calls[i].conn = c /\ calls[i].fut.st = "awaiting"}

\* C13: on every connection the tracking map holds exactly one entry for each
\* call issued and not yet answered, under that call's sequence id; a call
\* that has been resolved is out of the map and is never resolved again.
C13_MapHoldsInFlightCalls ==
  [][ /\ \A c \in Conns :
           LET reqs == clients'[c]._reqs
           IN  /\ {reqs[k] : k \in DOMAIN reqs} = InFlight(c)'
               /\ Cardinality(DOMAIN reqs) = Cardinality(InFlight(c)')
               /\ \A i \in InFlight(c)' :
                    calls'[i].seqid \in DOMAIN reqs /\ reqs[calls'[i].seqid] = i
      /\ \A i \in DOMAIN calls :
           calls[i].fut.st \in {"result", "failure"} => calls'[i].fut = calls[i].fut
    ]_vars

\* C13 witness: of two calls issued on a connection one has been answered and
\* only the other is left in the tracking map
C13_Witness ==
  /\ op.name = "recv_Log"
  /\ op.err = ""
  /\ alive # None
  /\ Cardinality(DOMAIN clients[alive]._reqs) = 1
  /\ Cardinality({i \in DOMAIN calls : calls[i].conn = alive}) = 2

\* C14: the Log argument struct round-trips: Log_args.read of what
\* Log_args.write wrote gives a struct equal to the original, with the same
\* entries in the same order, the empty batch included.
C14_LogArgsRoundTrip ==
  (codec.kind = "args" /\ codec.phase = "decoded" /\ ~codec.extra)
    => /\ codec.decoded = Log_args(codec.entries)
       /\ ~codec.decoded.isNone
       /\ Len(codec.decoded.messages) = Len(codec.entries)
       /\ \A k \in DOMAIN codec.entries : codec.decoded.messages[k] = codec.entries[k]

\* C14 witness: a batch of two different entries has been written and read back
C14_Witness ==
  /\ codec.kind = "args" /\ codec.phase = "decoded" /\ ~codec.extra
  /\ Len(codec.entries) = 2
  /\ codec.entries[1] # codec.entries[2]
  /\ codec.decoded.messages = codec.entries

\* The fields of a reply struct that Log_result.read knows
KnownReply(fields) == SelectSeq(fields, LAMBDA f : f.fid = 0 /\ f.ftype = T_I32)

\* C15: decoding skips every field with an unknown id, and every field with a
\* known id but another type, and still decodes the known fields: Log_result.read
\* gives the success value it gives for the struct without those fields, and
\* Log_args.read still gives the batch that was written.
C15_UnknownFieldsSkipped ==
  codec.phase = "decoded"
    => /\ codec.kind = "reply"
            => /\ codec.success = Log_result_read(NoSuccess, KnownReply(codec.reply))
               /\ codec.success.present = CarriesSuccess(codec.reply)
               /\ codec.success.present
                    => codec.success.value = SuccessOf(codec.reply)
       /\ (codec.kind = "args" /\ codec.extra)
            => codec.decoded = Log_args(codec.entries)

\* C15 witness: a reply whose field 0 follows an unknown field has been decoded
C15_Witness ==
  /\ codec.kind = "reply" /\ codec.phase = "decoded"
  /\ Len(codec.reply) >= 2
  /\ codec.reply[1].fid # 0
  /\ codec.reply[2] = Field(0, T_I32, 7, "")
  /\ codec.success = [present |-> TRUE, value |-> 7]

\* C16: log(category, s) with a string s builds the one-element batch
\* [LogEntry(category, s)], the batch log(category, [s]) builds; a list
\* [m1..mk] builds [LogEntry(category, m1), ..., LogEntry(category, mk)] in the
\* given order; building the batch leaves the connection state alone.
C16_StringIsOneElementBatch ==
  [][ Normalise
        => /\ codec'.input.isString
                => /\ codec'.entries = <<LogEntry(codec.category, codec.input.str)>>
                   /\ codec'.entries =
                        Entries(codec.category, ListInput(<<codec.input.str>>))
           /\ ~codec'.input.isString
                => /\ Len(codec'.entries) = Len(codec.input.items)
                   /\ \A k \in DOMAIN codec.input.items :
                        codec'.entries[k] = LogEntry(codec.category, codec.input.items[k])
           /\ _state' = _state /\ _client' = _client /\ _waiting' = _waiting
    ]_vars

\* C16 witness: the string "hi" has been turned into a batch of one entry
C16_Witness ==
  /\ codec.kind = "args" /\ codec.phase = "entries"
  /\ codec.input.isString /\ codec.input.str = "hi"
  /\ codec.entries = <<LogEntry(codec.category, "hi")>>

\* C17 (as claimed): calls served through one connect attempt are issued on the
\* connection in the order in which log() was called, the connecting call
\* included.
C17_IssuedInCallOrder ==
  \A i, j \in Riders :
    (i < j /\ calls[i].conn # None /\ calls[i].conn = calls[j].conn)
      => calls[i].seqid < calls[j].seqid

\* C17 (amended): the queued calls are issued on the connection in the order
\* in which log() was called, and the call that started the connect is issued
\* after all of them.
C17_WaitersInOrderConnectorLast ==
  /\ \A i, j \in Waiters :
       (i < j /\ calls[i].conn # None /\ calls[i].conn = calls[j].conn)
         => calls[i].seqid < calls[j].seqid
  /\ \A i \in Riders, w \in Waiters :
       (/\ calls[i].role = "connector"
        /\ calls[i].conn # None
        /\ calls[w].conn = calls[i].conn)
         => calls[w].seqid < calls[i].seqid

\* C17 witness: two queued calls were issued first, in call order, and the
\* connecting call, made before them, last
C17_Witness ==
  /\ Len(calls) = 3
  /\ calls[1].role = "connector" /\ calls[1].seqid = 3
  /\ calls[2].role = "waiter" /\ calls[2].seqid = 1
  /\ calls[3].role = "waiter" /\ calls[3].seqid = 2

\* C18: the state changes only along NOT_CONNECTED -> CONNECTING (by log()),
\* CONNECTING -> CONNECTED (connect success), CONNECTING -> NOT_CONNECTED
\* (connect failure) and CONNECTED -> NOT_CONNECTED (connection loss); log()
\* leaves the state alone when it is CONNECTING or CONNECTED.
C18_StateEdges ==
  [][ /\ _state' # _state
           => \/ /\ _state = "NOT_CONNECTED" /\ _state' = "CONNECTING"
                 /\ op'.name = "log"
              \/ /\ _state = "CONNECTING" /\ _state' = "CONNECTED"
                 /\ op'.name = "_connection_made"
              \/ /\ _state = "CONNECTING" /\ _state' = "NOT_CONNECTED"
                 /\ op'.name = "_connection_failed"
              \/ /\ _state = "CONNECTED" /\ _state' = "NOT_CONNECTED"
                 /\ op'.name = "_connection_lost"
      /\ ((\E c \in Categories, m \in LogInputs : log(c, m))
            /\ _state \in {"CONNECTING", "CONNECTED"})
           => _state' = _state
    ]_vars

\* C18 witness: after a connection was established and lost, log() has started
\* a later attempt
C18_Witness ==
  /\ \E a \in Conns : endpoint[a] = "lost"
  /\ _state = "CONNECTING"
  /\ op.name = "log"

\* C19: the stored connection is set exactly when the state is CONNECTED, and
\* it is then the established connection.
C19_ClientIffConnected ==
  /\ (_client # None) <=> (_state = "CONNECTED")
  /\ _client = alive

\* C19 witness: a connection was stored and has been cleared by its loss
C19_Witness ==
  /\ op.name = "_connection_lost"
  /\ _state = "NOT_CONNECTED"
  /\ _client = None
  /\ \E i \in DOMAIN calls : calls[i].got = op.id

\* The encoding of a batch expected on the wire
ExpectedArgs(entries) ==
  <<ListField(1, T_STRUCT,
              [k \in 1..Len(entries) |->
                 <<Field(1, T_STRING, 0, entries[k].category),
                   Field(2, T_STRING, 0, entries[k].message)>>])>>

\* C20: every envelope on a connection was written by one Log call: it names
\* Log, has kind CALL, carries the sequence id under which that call's pending
\* call was registered and that call's encoded batch, and has been flushed;
\* there is one envelope per call issued and none besides.
C20_EnvelopeMatchesPendingCall ==
  \A c \in Conns :
    LET cl == clients[c]
        issued == {i \in DOMAIN calls : calls[i].conn = c}
    IN  /\ cl.buf = <<>>
        /\ Len(cl.out) = Cardinality(issued)
        /\ \A k \in DOMAIN cl.out :
             /\ cl.out[k].name = "Log"
             /\ cl.out[k].kind = CALL
             /\ \E i \in issued :
                  /\ calls[i].seqid = cl.out[k].seqid
                  /\ cl.out[k].args = ExpectedArgs(calls[i].entries)
        /\ \A i \in issued :
             /\ \E k \in DOMAIN cl.out : cl.out[k].seqid = calls[i].seqid
             /\ calls[i].fut.st = "awaiting"
                  => /\ calls[i].seqid \in DOMAIN cl._reqs
                     /\ cl._reqs[calls[i].seqid] = i

\* C20 witness: a connection carries the envelopes of two pending calls
C20_Witness ==
  \E c \in Conns :
    /\ Len(clients[c].out) = 2
    /\ Cardinality(DOMAIN clients[c]._reqs) = 2
    /\ clients[c].out[2].seqid = 2

====
